---- MODULE Spec2Model ----
(***************************************************************************)
(* Model of tei_to_manuscript_html.py: the TEI -> paginated HTML / plain   *)
(* text converter.                                                         *)
(*                                                                         *)
(* Strings are sequences of chunks.  A chunk is either one character of    *)
(* document text ("a", " ", "\n", "<", ...) or one literal piece of an     *)
(* f-string template of the source ("<br/>", "</span>", ...).  Joining is  *)
(* \o, so every function below builds its result in the order the source   *)
(* concatenates it.  Three characters outside ASCII are written in ASCII:  *)
(* the caesura glyph is "||", the dash between title and author is " - ",  *)
(* the back arrow of a footnote entry is "(back)"; the style sheet is the  *)
(* one chunk "(style sheet)".                                              *)
(*                                                                         *)
(* An element is a record                                                  *)
(*   [tag, attrib, text, kids, tail]                                       *)
(* tag is <<namespace, local name>> or <<local name>>, attrib is a set of  *)
(* <<name, value>> pairs, text and tail are strings (None is the empty     *)
(* string: the source only ever tests them for truth), kids is the         *)
(* sequence of child elements.                                             *)
(*                                                                         *)
(* An optional page (the `page=None` parameter of render_element) is a     *)
(* sequence holding no page or one page.                                   *)
(***************************************************************************)
EXTENDS Integers, Sequences, FiniteSets, TLC

\* ---------------------------------------------------------------- strings

WhiteSpace == {" ", "\n", "\t"}

RECURSIVE Join(_, _)
\* sep.join(items)
Join(items, sep) ==
    IF items = <<>> THEN <<>>
    ELSE IF Len(items) = 1 THEN items[1]
    ELSE items[1] \o sep \o Join(Tail(items), sep)

\* html.escape of one character
escapeChunk(c) ==
    CASE c = "&" -> "&amp;"
      [] c = "<" -> "&lt;"
      [] c = ">" -> "&gt;"
      [] c = "\"" -> "&quot;"
      [] c = "'" -> "&#x27;"
      [] OTHER -> c

\* html.escape(s)
escape(s) == [i \in 1..Len(s) |-> escapeChunk(s[i])]

\* the positions of s that hold no white space
inked(s) == {i \in 1..Len(s) : s[i] \notin WhiteSpace}

\* str.rstrip(): s up to its last character that is no white space
rstrip(s) ==
    IF inked(s) = {} THEN <<>>
    ELSE SubSeq(s, 1, CHOOSE i \in inked(s) : \A j \in inked(s) : j <= i)

\* str.strip(): s from its first to its last character that is no white space
strip(s) ==
    IF inked(s) = {} THEN <<>>
    ELSE SubSeq(s, CHOOSE i \in inked(s) : \A j \in inked(s) : i <= j,
                   CHOOSE i \in inked(s) : \A j \in inked(s) : j <= i)

RECURSIVE splitAcc(_, _, _)
\* str.split(): the maximal runs of non-whitespace characters
splitAcc(s, cur, acc) ==
    IF s = <<>> THEN (IF cur = <<>> THEN acc ELSE Append(acc, cur))
    ELSE IF s[1] \in WhiteSpace
         THEN splitAcc(Tail(s), <<>>, IF cur = <<>> THEN acc ELSE Append(acc, cur))
         ELSE splitAcc(Tail(s), Append(cur, s[1]), acc)

split(s) == splitAcc(s, <<>>, <<>>)

\* decimal rendering of a number inside an f-string
NumStr(n) == ToString(n)

\* ---------------------------------------------------------------- elements

SKIP_NOTE_IDS == {<<"HND">>, <<"CSP">>, <<"FR">>, <<"FOLIO">>}

\* localname(tag): the part after the last "}"
localname(tag) == IF tag = <<>> THEN "" ELSE tag[Len(tag)]

\* el.attrib.get(name, default)
AttrGet(el, name, default) ==
    IF \E p \in el.attrib : p[1] = name
    THEN (CHOOSE p \in el.attrib : p[1] = name)[2]
    ELSE default

RECURSIVE itertext(_)
RECURSIVE itertextKids(_)
\* "".join(el.itertext()): own text, then every child's text and tail
itertext(el) == el.text \o itertextKids(el.kids)

itertextKids(kids) ==
    IF kids = <<>> THEN <<>>
    ELSE itertext(kids[1]) \o kids[1].tail \o itertextKids(Tail(kids))

RECURSIVE iter(_)
RECURSIVE iterKids(_)
\* el.iter(): the element and its descendants in document order
iter(el) == <<el>> \o iterKids(el.kids)

iterKids(kids) ==
    IF kids = <<>> THEN <<>> ELSE iter(kids[1]) \o iterKids(Tail(kids))

\* el.find(".//{*}name"): the first descendant with that local name, or none
findDesc(el, name) ==
    LET ds == iterKids(el.kids)
        hits == {i \in 1..Len(ds) : localname(ds[i].tag) = name}
    IN  IF hits = {} THEN <<>>
        ELSE <<ds[CHOOSE i \in hits : \A j \in hits : i <= j]>>

\* el.find("./{*}name"): the first direct child with that local name, or none
findChild(el, name) ==
    LET hits == {i \in 1..Len(el.kids) : localname(el.kids[i].tag) = name}
    IN  IF hits = {} THEN <<>>
        ELSE <<el.kids[CHOOSE i \in hits : \A j \in hits : i <= j]>>

\* ---------------------------------------------------------------- Page

\* Page.__init__
NewPage(pid) ==
    [id |-> pid, html_parts |-> <<>>, footnotes |-> <<>>, fn_counter |-> 1]

\* Page.add
PageAdd(pg, html) == [pg EXCEPT !.html_parts = Append(@, html)]

\* the inline marker add_foot returns for number num
FootMarker(num) ==
    <<"<sup id=\"ref", NumStr(num), "\"><a href=\"#", "fn", NumStr(num),
      "\" title=\"Jump to note ", NumStr(num), "\">", NumStr(num), "</a></sup>">>

\* add_foot without `self.fn_counter += 1`
add_footNoIncrement(pg, txt) ==
    LET num == pg.fn_counter
    IN  [page |-> [pg EXCEPT !.footnotes = Append(@, [num |-> num, txt |-> txt])],
         out  |-> FootMarker(num)]

\* Page.add_foot: the page after the call and the returned marker
add_foot(pg, txt) ==
    LET num == pg.fn_counter
    IN  [page |-> [pg EXCEPT !.fn_counter = num + 1,
                             !.footnotes = Append(@, [num |-> num, txt |-> txt])],
         out  |-> FootMarker(num)]

\* ---------------------------------------------------------------- render helpers

\* The rules that recurse read the module-level dictionary BIBLIO (through
\* render_quote); its value at the time of the call is the parameter B.
RECURSIVE render_element(_, _, _)
RECURSIVE render_unclear(_, _, _)
RECURSIVE render_choice(_, _)
RECURSIVE render_quote(_, _)
RECURSIVE renderKids(_, _, _)
RECURSIVE renderKidsNoHead(_, _, _)
RECURSIVE renderKidsNoTail(_, _)
RECURSIVE renderQuoteKids(_, _)

\* a rule's result: the returned fragment and the (optional) page after the call
Result(out, page) == [out |-> out, page |-> page]

render_lb(el) ==
    LET n  == AttrGet(el, "n", <<>>)
        br == AttrGet(el, "break", <<"yes">>)
    IN  IF br = <<"no">>
        THEN <<"-<br/><span class=\"linenum\">">> \o escape(n) \o <<"</span>">>
        ELSE <<"<br/><span class=\"linenum\">">> \o escape(n) \o <<"</span>">>

render_add(el) ==
    LET place   == AttrGet(el, "place", <<>>)
        tooltip == IF place # <<>> THEN place ELSE <<"supplied">>
    IN  <<"<span class=\"add\" title=\"">> \o tooltip \o <<"\">">>
            \o escape(itertext(el)) \o <<"</span>">>

render_del(el) ==
    <<"<span class=\"del\">">> \o escape(itertext(el)) \o <<"</span>">>

render_supplied(el) ==
    <<"<span class=\"supplied\">">> \o escape(itertext(el)) \o <<"</span>">>

render_surplus(el) ==
    LET reason  == AttrGet(el, "reason", <<>>)
        tooltip == IF reason # <<>>
                   THEN <<" title=\"">> \o escape(reason) \o <<"\"">> ELSE <<>>
    IN  <<"<span class=\"surplus\"">> \o tooltip \o <<">">>
            \o escape(itertext(el)) \o <<"</span>">>

render_caesura(el) == <<"<span class=\"caesura\">", "||", "</span>">>

render_gap(el) ==
    LET reason == AttrGet(el, "reason", <<"gap">>)
        unit   == AttrGet(el, "unit", <<>>)
        qty    == AttrGet(el, "quantity", <<>>)
        desc   == IF qty # <<>> /\ unit # <<>>
                  THEN reason \o <<" ", "(">> \o qty \o <<" ">> \o unit \o <<")">>
                  ELSE IF qty # <<>>
                       THEN reason \o <<" ", "(">> \o qty \o <<")">>
                       ELSE reason
    IN  <<"<span class=\"gap\" title=\"">> \o escape(desc) \o <<"\">[...]</span>">>

render_sic(el) ==
    <<"<span class=\"sic\" title=\"sic\">">> \o escape(itertext(el)) \o <<"</span>">>

Digits == {"0", "1", "2", "3", "4", "5", "6", "7", "8", "9"}

\* str.isdigit()
isdigit(s) == s # <<>> /\ \A i \in 1..Len(s) : s[i] \in Digits

DigitVal(c) ==
    CASE c = "0" -> 0 [] c = "1" -> 1 [] c = "2" -> 2 [] c = "3" -> 3
      [] c = "4" -> 4 [] c = "5" -> 5 [] c = "6" -> 6 [] c = "7" -> 7
      [] c = "8" -> 8 [] c = "9" -> 9

RECURSIVE int(_)
\* int(s) of a string of digits
int(s) == IF s = <<>> THEN 0 ELSE 10 * int(SubSeq(s, 1, Len(s) - 1)) + DigitVal(s[Len(s)])

render_space(el) ==
    LET unit    == AttrGet(el, "unit", <<>>)
        qty     == AttrGet(el, "quantity", <<>>)
        raw     == strip(qty \o <<" ">> \o unit)
        tooltip == IF raw # <<>> THEN raw ELSE <<"space">>
        k       == IF isdigit(qty) THEN int(qty) ELSE 1
        count   == IF k > 1 THEN k ELSE 1
    IN  <<"<span class=\"space\" title=\"">> \o escape(tooltip) \o <<"\">">>
            \o [i \in 1..count |-> "&nbsp;"] \o <<"</span>">>

\* ---------------------------------------------------------------- recursive renderer

\* No page: the default page=None of render_element
None == <<>>

\* the loop `for c in el: out += render_element(c, page); if c.tail: out += escape(c.tail)`
renderKids(kids, page, B) ==
    IF kids = <<>> THEN Result(<<>>, page)
    ELSE LET r    == render_element(kids[1], page, B)
             rest == renderKids(Tail(kids), r.page, B)
         IN  Result(r.out \o escape(kids[1].tail) \o rest.out, rest.page)

\* the same loop in the div rule, which passes over the head child
renderKidsNoHead(kids, page, B) ==
    IF kids = <<>> THEN Result(<<>>, page)
    ELSE IF localname(kids[1].tag) = "head"
         THEN renderKidsNoHead(Tail(kids), page, B)
         ELSE LET r    == render_element(kids[1], page, B)
                  rest == renderKidsNoHead(Tail(kids), r.page, B)
              IN  Result(r.out \o escape(kids[1].tail) \o rest.out, rest.page)

\* ''.join(render_element(c) for c in el): no page, no tails
renderKidsNoTail(kids, B) ==
    IF kids = <<>> THEN <<>>
    ELSE render_element(kids[1], None, B).out \o renderKidsNoTail(Tail(kids), B)

\* the child loop of render_quote: render_lb or render_element(c), then the tail
renderQuoteKids(kids, B) ==
    IF kids = <<>> THEN <<>>
    ELSE (IF localname(kids[1].tag) = "lb"
          THEN render_lb(kids[1])
          ELSE render_element(kids[1], None, B).out)
         \o escape(kids[1].tail) \o renderQuoteKids(Tail(kids), B)

render_unclear(el, page, B) ==
    LET r == renderKids(el.kids, page, B)
    IN  Result(<<"<span class=\"unclear\">">> \o escape(el.text) \o r.out
                   \o <<"</span>">>, r.page)

render_choice(el, B) ==
    LET orig == findDesc(el, "orig")
        corr == findDesc(el, "corr")
    IN  IF corr # <<>> /\ orig # <<>>
        THEN <<"<span class=\"choice\" title=\"orig: ">> \o escape(itertext(orig[1]))
                 \o <<"\">">> \o escape(itertext(corr[1])) \o <<"</span>">>
        ELSE renderKidsNoTail(el.kids, B)

RECURSIVE quoteItems(_, _)
\* the loop over src.split(): a "#key" contributes BIBLIO[key] when the key is
\* in BIBLIO and nothing otherwise; any other token contributes itself
quoteItems(parts, B) ==
    IF parts = <<>> THEN <<>>
    ELSE LET part == parts[1]
             key  == Tail(part)
         IN  (IF part[1] = "#"
              THEN (IF key \in DOMAIN B THEN <<B[key]>> ELSE <<>>)
              ELSE <<part>>)
             \o quoteItems(Tail(parts), B)

\* the tooltip render_quote builds from the source attribute
quoteTooltip(el, B) ==
    LET src == AttrGet(el, "source", <<>>)
    IN  IF src # <<>> THEN Join(quoteItems(split(src), B), <<"; ">>) ELSE <<>>

render_quote(el, B) ==
    LET tooltip == quoteTooltip(el, B)
        title   == IF tooltip # <<>>
                   THEN <<"title=\"">> \o escape(tooltip) \o <<"\"">> ELSE <<>>
    IN  <<"<span class=\"quote\" ">> \o title \o <<">">>
            \o escape(el.text) \o renderQuoteKids(el.kids, B) \o <<"</span>">>

\* the subst rule of render_element
render_subst(el) ==
    LET del_el == findDesc(el, "del")
        add_el == findDesc(el, "add")
    IN  (IF del_el # <<>> THEN render_del(del_el[1]) ELSE <<>>)
        \o (IF add_el # <<>> THEN render_add(add_el[1]) ELSE <<>>)

\* the pb rule of render_element
render_pb(el) ==
    <<"<hr/><div class=\"page-number\">Page ">> \o escape(AttrGet(el, "n", <<"?">>))
        \o <<"</div>">>

\* the note rule with the resp test ahead of the skip-list test
render_noteRespFirst(el, page, B) ==
    LET nid   == AttrGet(el, "id", <<>>)
        resp  == AttrGet(el, "resp", <<>>)
        place == AttrGet(el, "place", <<>>)
    IN  IF resp = <<"editorial">> /\ page # None
        THEN LET r == add_foot(page[1], strip(itertext(el)))
             IN  Result(r.out, <<r.page>>)
        ELSE IF nid \in SKIP_NOTE_IDS THEN Result(<<>>, page)
        ELSE LET r       == renderKids(el.kids, page, B)
                 tooltip == IF place # <<>>
                            THEN <<"title=\"brought from ">> \o place \o <<" margin\"">>
                            ELSE <<>>
             IN  Result(<<"<span class=\"note\" data-place=\"">> \o escape(place)
                            \o <<"\" ">> \o tooltip \o <<">">> \o escape(el.text)
                            \o r.out \o <<"</span>">>, r.page)

\* the note rule of render_element
render_note(el, page, B) ==
    LET nid   == AttrGet(el, "id", <<>>)
        resp  == AttrGet(el, "resp", <<>>)
        place == AttrGet(el, "place", <<>>)
    IN  IF nid \in SKIP_NOTE_IDS THEN Result(<<>>, page)
        ELSE IF resp = <<"editorial">> /\ page # None
        THEN LET r == add_foot(page[1], strip(itertext(el)))
             IN  Result(r.out, <<r.page>>)
        ELSE LET r       == renderKids(el.kids, page, B)
                 tooltip == IF place # <<>>
                            THEN <<"title=\"brought from ">> \o place \o <<" margin\"">>
                            ELSE <<>>
             IN  Result(<<"<span class=\"note\" data-place=\"">> \o escape(place)
                            \o <<"\" ">> \o tooltip \o <<">">> \o escape(el.text)
                            \o r.out \o <<"</span>">>, r.page)

\* the div rule of render_element
render_div(el, page, B) ==
    LET head == findChild(el, "head")
        r    == renderKidsNoHead(el.kids, page, B)
    IN  Result((IF head # <<>>
                THEN <<"<h2>">> \o escape(itertext(head[1])) \o <<"</h2>">>
                ELSE <<>>) \o r.out, r.page)

\* the lg rule of render_element
render_lg(el, page, B) ==
    LET xmlid == AttrGet(el, "xml:id", <<>>)
        r     == renderKids(el.kids, page, B)
    IN  Result(<<"<span class='verse' data-id='">> \o xmlid \o <<"'>">>
                   \o escape(el.text) \o r.out \o <<"</span>">>, r.page)

RECURSIVE beforeDash(_)
\* xmlid.split("-")[0]
beforeDash(s) ==
    IF s = <<>> \/ s[1] = "-" THEN <<>> ELSE <<s[1]>> \o beforeDash(Tail(s))

\* the p rule of render_element
render_p(el, page, B) ==
    LET xmlid   == AttrGet(el, "xml:id", <<>>)
        isComm  == xmlid # <<>> /\ xmlid[1] = "c"
        first   == beforeDash(xmlid)
        base    == [i \in 1..Len(first) |-> IF first[i] = "c" THEN "v" ELSE first[i]]
        classes == IF isComm THEN <<"commentary">> ELSE <<>>
        target  == IF isComm THEN <<" data-target='">> \o base \o <<"'">> ELSE <<>>
        r       == renderKids(el.kids, page, B)
    IN  Result(<<"<span class='">> \o classes \o <<"'">> \o target \o <<">">>
                   \o escape(el.text) \o r.out \o <<"</span>">>, r.page)

render_element(el, page, B) ==
    LET tag == localname(el.tag)
    IN  CASE tag = "lb"       -> Result(render_lb(el), page)
          [] tag = "add"      -> Result(render_add(el), page)
          [] tag = "del"      -> Result(render_del(el), page)
          [] tag = "unclear"  -> render_unclear(el, page, B)
          [] tag = "supplied" -> Result(render_supplied(el), page)
          [] tag = "surplus"  -> Result(render_surplus(el), page)
          [] tag = "choice"   -> Result(render_choice(el, B), page)
          [] tag = "quote"    -> Result(render_quote(el, B), page)
          [] tag = "caesura"  -> Result(render_caesura(el), page)
          [] tag = "gap"      -> Result(render_gap(el), page)
          [] tag = "sic"      -> Result(render_sic(el), page)
          [] tag = "space"    -> Result(render_space(el), page)
          [] tag = "subst"    -> Result(render_subst(el), page)
          [] tag = "note"     -> render_note(el, page, B)
          [] tag = "pb"       -> Result(render_pb(el), page)
          [] tag = "div"      -> render_div(el, page, B)
          [] tag = "lg"       -> render_lg(el, page, B)
          [] tag = "p"        -> render_p(el, page, B)
          [] OTHER            -> renderKids(el.kids, page, B)

\* ---------------------------------------------------------------- plain text extractor

RECURSIVE recurse(_)
RECURSIVE recurseKids(_)
\* the inner function of extract_plain_text
recurse(el) ==
    LET tag == localname(el.tag)
    IN  IF tag \in {"del", "orig", "surplus"} THEN <<>>
        ELSE IF tag = "note" /\ AttrGet(el, "resp", <<>>) = <<"editorial">> THEN <<>>
        ELSE IF tag = "lb" THEN <<"\n">>
        ELSE IF tag = "pb"
             THEN <<"\n", "\n", "[Page ">> \o AttrGet(el, "n", <<"?">>)
                      \o <<"]", "\n", "\n">>
        ELSE el.text \o recurseKids(el.kids)

recurseKids(kids) ==
    IF kids = <<>> THEN <<>>
    ELSE recurse(kids[1]) \o kids[1].tail \o recurseKids(Tail(kids))

RECURSIVE joinRecurse(_)
\* "".join(recurse(node) for node in list(body))
joinRecurse(nodes) ==
    IF nodes = <<>> THEN <<>> ELSE recurse(nodes[1]) \o joinRecurse(Tail(nodes))

\* where a match of <[^>]+> that starts at the head of s ends (0: no match)
tagMatchEnd(s) ==
    IF Len(s) >= 3 /\ s[1] = "<" /\ s[2] # ">" /\ \E j \in 3..Len(s) : s[j] = ">"
    THEN CHOOSE j \in 3..Len(s) : s[j] = ">" /\ \A k \in 3..(j - 1) : s[k] # ">"
    ELSE 0

\* 1, 2, ..., n
upTo(n) == [i \in 1..n |-> i]

RECURSIVE stripTags(_)
\* re.sub(r"<[^>]+>", "", text): the leftmost match is cut out, then the
\* matches in what follows it
stripTags(s) ==
    LET starts == {i \in 1..Len(s) : tagMatchEnd(SubSeq(s, i, Len(s))) > 0}
        first  == CHOOSE i \in starts : \A j \in starts : i <= j
        after  == first + tagMatchEnd(SubSeq(s, first, Len(s)))
    IN  IF starts = {} THEN s
        ELSE SubSeq(s, 1, first - 1) \o stripTags(SubSeq(s, after, Len(s)))

\* re.sub(r"\n{2,}", "\n", text): of a run of newlines the last one stays
collapseNewlines(s) ==
    LET kept == SelectSeq(upTo(Len(s)),
                          LAMBDA i : ~ (s[i] = "\n" /\ i < Len(s) /\ s[i + 1] = "\n"))
    IN  [k \in 1..Len(kept) |-> s[kept[k]]]

\* text.splitlines(): the pieces between newlines, no empty piece after a final newline
splitlines(s) ==
    LET nl    == SelectSeq(upTo(Len(s)), LAMBDA i : s[i] = "\n")
        from(k) == IF k = 1 THEN 1 ELSE nl[k - 1] + 1
        ended == [k \in 1..Len(nl) |-> SubSeq(s, from(k), nl[k] - 1)]
        rest  == SubSeq(s, from(Len(nl) + 1), Len(s))
    IN  IF rest = <<>> THEN ended ELSE Append(ended, rest)

\* the lines extract_plain_text keeps: the non-blank ones, and the blank ones
\* that differ from the last line
keptLines(lines) ==
    SelectSeq(lines, LAMBDA ln : strip(ln) # <<>> \/ ln # lines[Len(lines)])

extract_plain_text(body) ==
    LET text0 == joinRecurse(body)
        text1 == stripTags(text0)
        text2 == collapseNewlines(text1)
        split0 == splitlines(text2)
        lines == [i \in 1..Len(split0) |-> rstrip(split0[i])]
    IN  strip(Join(keptLines(lines), <<"\n">>))

\* ---------------------------------------------------------------- converter

\* bibl.findtext(path, ""): the text of the first child with that name
findtext(el, name) ==
    LET hit == findChild(el, name) IN IF hit = <<>> THEN <<>> ELSE hit[1].text

\* one round of the loop over the bibl elements: the dictionary after it
biblioEntry(B, bibl) ==
    LET bid    == AttrGet(bibl, "xml:id", <<>>)
        title  == strip(findtext(bibl, "title"))
        author == strip(findtext(bibl, "author"))
        val    == IF title # <<>> /\ author # <<>>
                  THEN title \o <<" - ">> \o author
                  ELSE IF title # <<>> THEN title ELSE author
    IN  IF bid = <<>> THEN B
        ELSE [k \in (DOMAIN B) \cup {bid} |-> IF k = bid THEN val ELSE B[k]]

RECURSIVE fillBiblio(_, _)
\* the loop over root.findall(".//tei:listBibl//tei:bibl")
fillBiblio(B, bibls) ==
    IF bibls = <<>> THEN B ELSE fillBiblio(biblioEntry(B, bibls[1]), Tail(bibls))

\* BIBLIO = {} at import
EmptyBiblio == [k \in {} |-> <<>>]

\* the loop round with `current` never rebound: fragments and footnotes keep
\* going to the first page
walkStepFirstPage(pgs, child, B) ==
    IF localname(child.tag) = "pb"
    THEN Append(pgs, NewPage(AttrGet(child, "n", <<"?">>)))
    ELSE LET r == render_element(child, <<pgs[1]>>, B)
         IN  IF strip(r.out) # <<>>
             THEN [pgs EXCEPT ![1] = PageAdd(r.page[1], r.out)]
             ELSE [pgs EXCEPT ![1] = r.page[1]]

\* one round of the loop over list(body): the page list after it
walkStep(pgs, child, B) ==
    IF localname(child.tag) = "pb"
    THEN Append(pgs, NewPage(AttrGet(child, "n", <<"?">>)))
    ELSE LET cur == Len(pgs)
             r   == render_element(child, <<pgs[cur]>>, B)
         IN  IF strip(r.out) # <<>>
             THEN [pgs EXCEPT ![cur] = PageAdd(r.page[1], r.out)]
             ELSE [pgs EXCEPT ![cur] = r.page[1]]

\* the first three entries of the html list (the style sheet is one chunk)
htmlHead ==
    <<"<!doctype html><html lang='sa'><head><meta charset='utf-8'><title>Manuscript</title><style>",
      "(style sheet)", "</style></head><body>">>

RECURSIVE footItems(_)
\* the <li> entries of a page's footnote list
footItems(fns) ==
    IF fns = <<>> THEN <<>>
    ELSE <<"<li id=\"", "fn", NumStr(fns[1].num), "\">">> \o escape(fns[1].txt)
             \o <<" <a href=\"#ref", NumStr(fns[1].num), "\">(back)</a></li>">>
             \o footItems(Tail(fns))

\* what the assembly loop appends for a page it keeps
pageHtml(pg) ==
    <<"<div class='folio'><div class='folio-inner'>">>
        \o Join(pg.html_parts, <<" ">>)
        \o (IF pg.footnotes # <<>>
            THEN <<"<div class=\"footnotes\"><ol>">> \o footItems(pg.footnotes)
                     \o <<"</ol></div>">>
            ELSE <<>>)
        \o <<"</div></div>">>

\* the test without `i == 0`: any page without content is passed over
pageSkippedAny(pgs, i) ==
    ~ \E j \in 1..Len(pgs[i].html_parts) : strip(pgs[i].html_parts[j]) # <<>>

\* the test `i == 0 and not any(s.strip() for s in pg.html_parts)`
pageSkipped(pgs, i) ==
    i = 1 /\ ~ \E j \in 1..Len(pgs[i].html_parts) : strip(pgs[i].html_parts[j]) # <<>>

RECURSIVE pagesHtml(_, _)
\* the assembly loop from page i on
pagesHtml(pgs, i) ==
    IF i > Len(pgs) THEN <<>>
    ELSE (IF pageSkipped(pgs, i) THEN <<>> ELSE pageHtml(pgs[i])) \o pagesHtml(pgs, i + 1)

\* ''.join(html)
assembleHtml(pgs) == htmlHead \o pagesHtml(pgs, 1) \o <<"</body></html>">>

\* ---------------------------------------------------------------- inputs

\* the longest body the model walks (number of direct children)
MaxChildren == 3

El(tag, attrib, text, kids, tail) ==
    [tag |-> tag, attrib |-> attrib, text |-> text, kids |-> kids, tail |-> tail]

\* an element in the TEI namespace
Tei(name) == <<"{http://www.tei-c.org/ns/1.0}", name>>

Editorial == <<"resp", <<"editorial">>>>

EdNote(text) == El(Tei("note"), {Editorial}, text, <<>>, <<>>)

\* <pb n="2"/>
PbTwo == El(Tei("pb"), {<<"n", <<"2">>>>}, <<>>, <<>>, <<"\n">>)

\* <pb/>
PbNoNumber == El(Tei("pb"), {}, <<>>, <<>>, <<>>)

\* <p xml:id="c1-2">a<unclear>u<note resp="editorial"> f </note></unclear>b</p>
ParUnclearNote ==
    El(Tei("p"), {<<"xml:id", <<"c", "1", "-", "2">>>>}, <<"a">>,
       <<El(Tei("unclear"), {}, <<"u">>, <<EdNote(<<" ", "f", " ">>)>>, <<"b">>)>>,
       <<"\n">>)

\* <p><note resp="editorial">f</note><note id="HND" resp="editorial">h</note>
\*    <note resp="editorial">g</note></p>
ParSkipBetween ==
    El(Tei("p"), {}, <<>>,
       <<EdNote(<<"f">>),
         El(Tei("note"), {<<"id", <<"HND">>>>, Editorial}, <<"h">>, <<>>, <<>>),
         EdNote(<<"g">>)>>,
       <<>>)

\* <quote source="#K1 L #K9">q<note resp="editorial">e</note><lb n="1"/></quote>
QuoteWithNote ==
    El(Tei("quote"), {<<"source", <<"#", "K1", " ", "L", " ", "#", "K9">>>>}, <<"q">>,
       <<EdNote(<<"e">>), El(Tei("lb"), {<<"n", <<"1">>>>}, <<>>, <<>>, <<>>)>>,
       <<>>)

\* <choice><corr>c<note resp="editorial">e</note></corr></choice>
ChoiceNoOrig ==
    El(Tei("choice"), {}, <<>>,
       <<El(Tei("corr"), {}, <<"c">>, <<EdNote(<<"e">>)>>, <<>>)>>, <<>>)

\* <hi>a<seg>b</seg>c</hi>t
HiSeg ==
    El(Tei("hi"), {}, <<"a">>, <<El(Tei("seg"), {}, <<"b">>, <<>>, <<"c">>)>>, <<"t">>)

\* <p>a<pb n="3"/>b</p>
ParNestedPb ==
    El(Tei("p"), {}, <<"a">>, <<El(Tei("pb"), {<<"n", <<"3">>>>}, <<>>, <<>>, <<"b">>)>>,
       <<"\n">>)

\* <seg><note id="FR">x</note> </seg>
SegBlank ==
    El(Tei("seg"), {}, <<>>,
       <<El(Tei("note"), {<<"id", <<"FR">>>>}, <<"x">>, <<>>, <<" ">>)>>, <<"\n">>)

\* <note id="CSP" resp="editorial">s</note>
SkipNoteDirect ==
    El(Tei("note"), {<<"id", <<"CSP">>>>, Editorial}, <<"s">>, <<>>, <<>>)

\* <div><head>H</head><lg xml:id="v1">a<lb n="1" break="no"/>b<caesura/>
\*   <gap quantity="2" unit="ch"/><space quantity="2"/>
\*   <subst><del>x</del><add>y</add></subst><sic>s</sic></lg></div>
DivVerse ==
    El(Tei("div"), {}, <<"\n">>,
       <<El(Tei("head"), {}, <<"H">>, <<>>, <<>>),
         El(Tei("lg"), {<<"xml:id", <<"v", "1">>>>}, <<"a">>,
            <<El(Tei("lb"), {<<"n", <<"1">>>>, <<"break", <<"no">>>>}, <<>>, <<>>, <<"b">>),
              El(Tei("caesura"), {}, <<>>, <<>>, <<>>),
              El(Tei("gap"), {<<"quantity", <<"2">>>>, <<"unit", <<"ch">>>>}, <<>>, <<>>, <<>>),
              El(Tei("space"), {<<"quantity", <<"2">>>>}, <<>>, <<>>, <<>>),
              El(Tei("subst"), {}, <<>>,
                 <<El(Tei("del"), {}, <<"x">>, <<>>, <<>>),
                   El(Tei("add"), {}, <<"y">>, <<>>, <<>>)>>, <<>>),
              El(Tei("sic"), {}, <<"s">>, <<>>, <<>>)>>,
            <<>>)>>,
       <<"\n">>)

\* <p>a&lt;&amp;<note place="left">m</note></p>
ParAngle ==
    El(Tei("p"), {}, <<"a", "<", "&">>,
       <<El(Tei("note"), {<<"place", <<"left">>>>}, <<"m">>, <<>>, <<>>)>>, <<>>)

\* the direct children a body is made of
Children ==
    {PbTwo, PbNoNumber, ParUnclearNote, ParSkipBetween, QuoteWithNote, ChoiceNoOrig,
     HiSeg, ParNestedPb, SegBlank, SkipNoteDirect, DivVerse, ParAngle}

\* <bibl xml:id=bid><title>title</title><author>author</author></bibl>
Bibl(attrib, title, author) ==
    El(Tei("bibl"), attrib, <<>>,
       <<El(Tei("title"), {}, title, <<>>, <<>>),
         El(Tei("author"), {}, author, <<>>, <<>>)>>, <<>>)

BiblKeyOne == Bibl({<<"xml:id", <<"K1">>>>}, <<"T">>, <<" ", "A">>)

\* a bibl with a title only, and a bibl without xml:id
BiblKeyTwo == Bibl({<<"xml:id", <<"K2">>>>}, <<"U", " ">>, <<>>)
BiblNoKey == Bibl({}, <<"V">>, <<"W">>)

\* the bibliography lists of the documents of Spec
BiblLists == {<<BiblKeyOne>>}

\* the bibliography lists of the documents of SpecBiblio
BiblListsVaried == {<<>>, <<BiblKeyOne>>, <<BiblNoKey, BiblKeyTwo>>}

\* <p><quote source="#K2 #K1">r</quote></p>
ParQuoteTwoKeys ==
    El(Tei("p"), {}, <<>>,
       <<El(Tei("quote"), {<<"source", <<"#", "K2", " ", "#", "K1">>>>}, <<"r">>, <<>>, <<>>)>>,
       <<>>)

\* the direct children a body of SpecBiblio is made of
QuoteChildren == {QuoteWithNote, ParQuoteTwoKeys, PbTwo, ParUnclearNote}

\* ---------------------------------------------------------------- state

VARIABLES
    BIBLIO,    \* the module-level dictionary
    pc,        \* "idle": no call of tei_to_html is running or has written output;
               \* "walk": in the loop over list(body); "done": both files written
    listBibl,  \* the bibl elements of the document of the current call
    body,      \* the direct children of the body the loop has been through
    pages,     \* the local list `pages`; `current` is its last element
    html,      \* what was written to outfile
    plain      \* what was written to the .txt file

vars == <<BIBLIO, pc, listBibl, body, pages, html, plain>>

Init ==
    /\ BIBLIO = EmptyBiblio
    /\ pc = "idle"
    /\ listBibl = <<>>
    /\ body = <<>>
    /\ pages = <<>>
    /\ html = <<>>
    /\ plain = <<>>

\* tei_to_html up to the loop, for a document with a body
Parse(bibls) ==
    /\ pc # "walk"
    /\ BIBLIO' = fillBiblio(BIBLIO, bibls)
    /\ listBibl' = bibls
    /\ pages' = <<NewPage(<<"start">>)>>
    /\ body' = <<>>
    /\ html' = <<>>
    /\ plain' = <<>>
    /\ pc' = "walk"

\* tei_to_html for a document without a body: BIBLIO is filled, then "No <body>"
ParseNoBody(bibls) ==
    /\ pc # "walk"
    /\ BIBLIO' = fillBiblio(BIBLIO, bibls)
    /\ listBibl' = bibls
    /\ pages' = <<>>
    /\ body' = <<>>
    /\ html' = <<>>
    /\ plain' = <<>>
    /\ pc' = "idle"

\* one round of the loop over list(body), child being the next direct child
WalkChild(child) ==
    /\ pc = "walk"
    /\ Len(body) < MaxChildren
    /\ pages' = walkStep(pages, child, BIBLIO)
    /\ body' = Append(body, child)
    /\ UNCHANGED <<BIBLIO, pc, listBibl, html, plain>>

\* the body has no further child: both outputs are assembled and written
Assemble ==
    /\ pc = "walk"
    /\ html' = assembleHtml(pages)
    /\ plain' = extract_plain_text(body)
    /\ pc' = "done"
    /\ UNCHANGED <<BIBLIO, listBibl, body, pages>>

Next ==
    \/ \E bibls \in BiblLists : Parse(bibls)
    \/ \E bibls \in BiblLists : ParseNoBody(bibls)
    \/ \E child \in Children : WalkChild(child)
    \/ Assemble

Spec == Init /\ [][Next]_vars

\* one process converting documents whose bibliographies differ
NextBiblio ==
    \/ \E bibls \in BiblListsVaried : Parse(bibls)
    \/ \E bibls \in BiblListsVaried : ParseNoBody(bibls)
    \/ \E child \in QuoteChildren : WalkChild(child)
    \/ Assemble

SpecBiblio == Init /\ [][NextBiblio]_vars

\* ---------------------------------------------------------------- properties

\* the page the loop variable `current` refers to
current == pages[Len(pages)]

\* a step of the loop over list(body), and the child it handles
IsWalkStep == pc = "walk" /\ body' # body
walked == body'[Len(body')]

\* the chunks of s that directly follow an occurrence of the chunk opener
chunksAfter(s, opener) ==
    LET at == SelectSeq(upTo(Len(s) - 1), LAMBDA i : s[i] = opener)
    IN  [k \in 1..Len(at) |-> s[at[k] + 1]]

\* the numbers of the inline markers (<sup id="ref<N>">) in s, in order
markerNums(s) == chunksAfter(s, "<sup id=\"ref")

\* the fragments of a page as they are joined in the output
pageText(pg) == Join(pg.html_parts, <<" ">>)

\* C1: at every point of the walk, the footnote list of every page carries the
\* numbers 1, 2, ..., N in registration order (N the number of footnotes
\* registered on that page so far), the inline markers in the page's fragments
\* carry the same numbers in the same order, and so the first footnote of
\* every page is number 1 whatever the earlier pages hold.
C1_FootnoteNumbering ==
    \A i \in 1..Len(pages) :
        /\ \A k \in 1..Len(pages[i].footnotes) : pages[i].footnotes[k].num = k
        /\ markerNums(pageText(pages[i]))
               = [k \in 1..Len(pages[i].footnotes) |-> NumStr(k)]

\* a page with two footnotes is followed by a page that has a footnote
C1_Witness ==
    \E i \in 1..Len(pages) : \E j \in 1..Len(pages) :
        /\ i < j
        /\ Len(pages[i].footnotes) >= 2
        /\ Len(pages[j].footnotes) >= 1

\* C4: a page-break marker that is a direct child of the body opens one new
\* page keyed by its n attribute ("?" when absent) and leaves the page that was
\* current untouched; every step of the walk leaves all pages before the
\* current one unchanged (fragments and footnotes go to the most recently
\* opened page only); a child that is not a page-break marker, even one that
\* contains a page-break marker, opens no page.
C4_PageBreakSeals ==
    [][IsWalkStep =>
        /\ \A i \in 1..(Len(pages) - 1) : pages'[i] = pages[i]
        /\ IF localname(walked.tag) = "pb"
           THEN /\ Len(pages') = Len(pages) + 1
                /\ pages'[Len(pages)] = current
                /\ pages'[Len(pages')].id = AttrGet(walked, "n", <<"?">>)
           ELSE Len(pages') = Len(pages)]_vars

\* the first page holds content and is sealed, and the child handled last, on
\* the second page, holds a nested page-break marker and has opened no page
C4_Witness ==
    /\ Len(body) = 3
    /\ body[3] = ParNestedPb
    /\ Len(pages) = 2
    /\ pages[1].html_parts # <<>>
    /\ pages[2].html_parts # <<>>
    /\ pages[2].id = <<"?">>

\* a note whose id is in the skip-list
isSkipNote(el) ==
    localname(el.tag) = "note" /\ AttrGet(el, "id", <<>>) \in SKIP_NOTE_IDS

RECURSIVE withoutSkipNotes(_)
RECURSIVE kidsWithoutSkipNotes(_)
\* the element with every skip-list note below it taken out
withoutSkipNotes(el) == [el EXCEPT !.kids = kidsWithoutSkipNotes(el.kids)]

kidsWithoutSkipNotes(kids) ==
    IF kids = <<>> THEN <<>>
    ELSE (IF isSkipNote(kids[1]) THEN <<>> ELSE <<withoutSkipNotes(kids[1])>>)
         \o kidsWithoutSkipNotes(Tail(kids))

footNums(pg) == [k \in 1..Len(pg.footnotes) |-> pg.footnotes[k].num]

\* C5: a note whose id is in the skip-list renders to the empty string and
\* leaves the current page (footnote list and counter) as it was, also when its
\* resp is "editorial"; the footnote numbers and the counter of the current
\* page after a child is rendered are those the child gives with its skip-list
\* notes taken out.
C5_SkipNoteRegistersNothing ==
    [][IsWalkStep /\ localname(walked.tag) # "pb" =>
        LET els    == iter(walked)
            absent == render_element(withoutSkipNotes(walked), <<current>>, BIBLIO).page[1]
        IN  /\ isSkipNote(walked) => pages' = pages
            /\ \A k \in 1..Len(els) :
                   isSkipNote(els[k]) =>
                       render_element(els[k], <<current>>, BIBLIO)
                           = Result(<<>>, <<current>>)
            /\ footNums(pages'[Len(pages')]) = footNums(absent)
            /\ pages'[Len(pages')].fn_counter = absent.fn_counter]_vars

\* the paragraph with an editorial skip-list note between two editorial notes
\* has been rendered onto a page that already held a footnote
C5_Witness ==
    /\ Len(body) >= 2
    /\ body[Len(body)] = ParSkipBetween
    /\ footNums(current) = <<1, 2, 3>>

countChunk(s, c) == Cardinality({i \in 1..Len(s) : s[i] = c})

\* the page containers of the written document
containers == countChunk(html, "<div class='folio'><div class='folio-inner'>")

\* every fragment of the page is empty or white space
allBlank(pg) == \A j \in 1..Len(pg.html_parts) : strip(pg.html_parts[j]) = <<>>

\* C10: no page ever holds a fragment that is empty after trimming; and the
\* written document has one container for every page opened by a page-break
\* marker, plus one for the synthetic first page unless all its fragments are
\* empty or white space.
C10_FragmentsAndFirstPage ==
    /\ \A i \in 1..Len(pages) : \A j \in 1..Len(pages[i].html_parts) :
           strip(pages[i].html_parts[j]) # <<>>
    /\ pc = "done" =>
           containers = (Len(pages) - 1) + (IF allBlank(pages[1]) THEN 0 ELSE 1)

\* the first child rendered to white space and was dropped, the first page is
\* left out, and the page opened by the marker after it is written although
\* it holds nothing
C10_Witness ==
    /\ pc = "done"
    /\ body = <<SegBlank, PbTwo>>
    /\ pages[1].html_parts = <<>>
    /\ pages[2].html_parts = <<>>
    /\ containers = 1

\* the text of a string with all white space taken out
squeeze(s) == SelectSeq(s, LAMBDA c : c \notin WhiteSpace)

\* an element the plain text leaves out by rule
isSuppressed(el) ==
    \/ localname(el.tag) \in {"del", "orig", "surplus"}
    \/ localname(el.tag) = "note" /\ AttrGet(el, "resp", <<>>) = <<"editorial">>

\* C2: for a body that holds no deletion, original, surplus or editorial note,
\* the plain text with its white space taken out is the flattened text of the
\* body (the text of every element, each child's text and then its tail, in
\* document order) with its white space taken out.  A page-break marker puts
\* a page-number line of its own into the plain text, which is no text of the
\* source: the statement is made for the bodies without one, where the plain
\* text is made of source text only.
C2_TextPreserved ==
    (/\ pc = "done"
     /\ \A k \in 1..Len(iterKids(body)) :
            /\ ~ isSuppressed(iterKids(body)[k])
            /\ localname(iterKids(body)[k].tag) # "pb")
        => squeeze(plain) = squeeze(itertextKids(body))

RECURSIVE splitAtPb(_, _, _)
\* the direct children of the body page by page: a page-break marker that is a
\* direct child ends a page
splitAtPb(kids, cur, acc) ==
    IF kids = <<>> THEN Append(acc, cur)
    ELSE IF localname(kids[1].tag) = "pb"
         THEN splitAtPb(Tail(kids), <<>>, Append(acc, cur))
         ELSE splitAtPb(Tail(kids), Append(cur, kids[1]), acc)

\* the rules that pass the text of their descendants on flattened, or hold none
FlatteningTags ==
    {"add", "del", "supplied", "surplus", "sic", "subst", "lb", "pb", "gap", "space",
     "caesura"}

RECURSIVE editorialTexts(_)
RECURSIVE editorialTextsKids(_, _)
\* the flattened texts of the editorial notes outside the skip-list that rule
\* dispatch reaches when el is rendered, in document order: the rules for
\* unclear, quote, lg, p, an inline note, a choice without orig or corr, div
\* (but for its head) and unrecognized elements render their children
editorialTexts(el) ==
    LET tag == localname(el.tag)
    IN  IF tag = "note"
        THEN IF isSkipNote(el) THEN <<>>
             ELSE IF AttrGet(el, "resp", <<>>) = <<"editorial">>
                  THEN <<strip(itertext(el))>>
                  ELSE editorialTextsKids(el.kids, FALSE)
        ELSE IF tag \in FlatteningTags THEN <<>>
        ELSE IF tag = "choice" /\ findDesc(el, "orig") # <<>> /\ findDesc(el, "corr") # <<>>
             THEN <<>>
        ELSE editorialTextsKids(el.kids, tag = "div")

editorialTextsKids(kids, noHead) ==
    IF kids = <<>> THEN <<>>
    ELSE (IF noHead /\ localname(kids[1].tag) = "head" THEN <<>>
          ELSE editorialTexts(kids[1]))
         \o editorialTextsKids(Tail(kids), noHead)

\* the children walked while page i was current
childrenOf(i) == splitAtPb(body, <<>>, <<>>)[i]

\* C3: every editorial note outside the skip-list that rule dispatch reaches
\* while a page is current, at any depth (also inside a quotation, an unclear
\* reading or a choice rendered by its children), has registered one footnote
\* with its flattened text on that page, and the fragments hold one inline
\* marker for each.
C3_EditorialNotesRegister ==
    pc = "walk" =>
        \A i \in 1..Len(pages) :
            /\ [k \in 1..Len(pages[i].footnotes) |-> pages[i].footnotes[k].txt]
                   = editorialTextsKids(childrenOf(i), FALSE)
            /\ Len(markerNums(pageText(pages[i])))
                   = Len(editorialTextsKids(childrenOf(i), FALSE))

RECURSIVE walkAll(_, _, _)
\* the whole loop over list(body)
walkAll(kids, pgs, B) ==
    IF kids = <<>> THEN pgs ELSE walkAll(Tail(kids), walkStep(pgs, kids[1], B), B)

\* the pages a process gives that converts the current document and no other
\* before it
pagesAlone == walkAll(body, <<NewPage(<<"start">>)>>, fillBiblio(EmptyBiblio, listBibl))

\* C6: the output for a document is the same whatever the process converted
\* before: pages and written document are those of a process that converts
\* this document only, so a tooltip is made of the document's own bibliography
\* and a key that is not in it is left out.
C6_Deterministic ==
    /\ pc \in {"walk", "done"} => pages = pagesAlone
    /\ pc = "done" => html = assembleHtml(pagesAlone)

\* how often the inline marker with id ref<num> occurs in s
markerCount(s, num) ==
    Cardinality({i \in 1..(Len(s) - 1) : s[i] = "<sup id=\"ref" /\ s[i + 1] = NumStr(num)})

\* how often the list entry with id fn<num> occurs in s
entryCount(s, num) ==
    Cardinality({i \in 1..(Len(s) - 2) :
                    s[i] = "<li id=\"" /\ s[i + 1] = "fn" /\ s[i + 2] = NumStr(num)})

\* the numbers of the list entries (<li id="fn<N>">) in s, in order
entryNums(s) ==
    LET at == SelectSeq(upTo(Len(s) - 2), LAMBDA i : s[i] = "<li id=\"" /\ s[i + 1] = "fn")
    IN  [k \in 1..Len(at) |-> s[at[k] + 2]]

\* C7: in the written document every registered footnote has one inline marker
\* ref<N> in the fragments of its page and one list entry fn<N> at the foot of
\* that page, the marker links to fn<N> and the entry links back to ref<N>,
\* and each of the two ids names that one element of the document, so that
\* either link leads to the other end of the same footnote.
C7_MarkersAndEntriesLinked ==
    pc = "done" =>
        /\ \A i \in 1..Len(pages) : \A k \in 1..Len(pages[i].footnotes) :
               LET num == pages[i].footnotes[k].num
               IN  /\ markerCount(pageText(pages[i]), num) = 1
                   /\ entryCount(footItems(pages[i].footnotes), num) = 1
                   /\ markerCount(html, num) = 1
                   /\ entryCount(html, num) = 1
        /\ \A i \in 1..(Len(html) - 4) :
               html[i] = "<sup id=\"ref" => html[i + 3] = "fn" /\ html[i + 4] = html[i + 1]
        /\ chunksAfter(html, " <a href=\"#ref") = entryNums(html)

\* the element types render_element has a rule for
RuleTags ==
    {"lb", "add", "del", "unclear", "supplied", "surplus", "choice", "quote", "caesura",
     "gap", "sic", "space", "subst", "note", "pb", "div", "lg", "p"}

\* C8: an element of an unrecognized type renders to its own leading text,
\* then each child's rendering followed by that child's tail, in document
\* order, with or without a page.
C8_FallbackKeepsText ==
    pc = "walk" =>
        \A k \in 1..Len(iterKids(body)) :
            LET el == iterKids(body)[k]
            IN  localname(el.tag) \notin RuleTags =>
                    \A page \in {None, <<current>>} :
                        render_element(el, page, BIBLIO).out
                            = escape(el.text) \o renderKids(el.kids, page, BIBLIO).out

\* a occurs in b as a run of chunks
isInfix(a, b) ==
    \E k \in 0..(Len(b) - Len(a)) : SubSeq(b, k + 1, k + Len(a)) = a

\* C9: after the walk every page opened by a page-break marker holds the
\* page-number label of that marker (of its n attribute, "?" when absent) in
\* one of its fragments.
C9_PageNumberLabel ==
    pc = "done" =>
        \A i \in 2..Len(pages) :
            \E j \in 1..Len(pages[i].html_parts) :
                isInfix(<<"<hr/><div class=\"page-number\">Page ">> \o escape(pages[i].id)
                            \o <<"</div>">>, pages[i].html_parts[j])

====
